---- MODULE Spec2Model ----
(***************************************************************************)
(* A model of the easytcp server: the accept loop, the per-connection      *)
(* handleConn task, Stop, the lifecycle hooks of the broadcast example,    *)
(* and (from the specification, their code being outside src/) the         *)
(* Session, the Router and the session registry they drive.                *)
(***************************************************************************)
EXTENDS Integers, Sequences, FiniteSets, TLC

\* ------------------------------------------------------------------ bounds
MaxConns == 3          \* connections (sessions) the model names
LifeConns == 1         \* connections peers open in the lifecycle scenario
ReqQueueSizeOpt == 2   \* ServerOption.ReqQueueSize of the modelled server
RespQueueSizeOpt == 2  \* ServerOption.RespQueueSize of the modelled server
MaxAcceptErrs == 1     \* accept errors injected in the accept scenario
RouterConns == 2       \* sessions of the routing scenario
WireLen == 3           \* requests each of them sends
MaxOpt == 2            \* option values range over -MaxOpt..MaxOpt

DefaultReqQueueSize == 1024
DefaultRespQueueSize == 1024
DefaultWriteAttemptTimes == 1

Conns == 1..MaxConns

VARIABLES
    \* Server
    option,           \* the ServerOption handed to NewServer
    server,           \* what NewServer built from it
    stopped,          \* s.stopped is closed
    listenerClosed,   \* s.Listener.Close() was called
    acceptPc,         \* position of Serve/acceptLoop
    serveResult,      \* what Serve returned
    acceptErrsLeft,   \* errors Accept will still return on an open listener
    acceptErr,        \* the err of the last Accept call: nil, temporary or other
    pendingConns,     \* connections peers have yet to open
    stopPc,           \* position of Stop
    inFlightAtStop,   \* history: the (session, request) pairs whose chain was
                      \* running when Stop was called
    rangeVisited,     \* registry keys Stop's Range has visited
    hcPc,             \* position of handleConn, per connection
    connCloseCalls,   \* calls of conn.Close(), per connection
    closeHookCalls,   \* invocations of s.OnSessionClose, per connection
    \* Session (one per connection)
    sessId,           \* Session.ID()
    closed,           \* the close signal has fired
    closeCallers,     \* who has called Session.Close()
    inPc,             \* readInbound position
    inPending,        \* the request readInbound is pushing
    wire,             \* entries the peer has sent and readInbound has not read
    outPc,            \* writeOutbound position
    respQueue,        \* the session's response queue
    written,          \* entries written to the connection
    \* Session registry
    registry,         \* identifier -> session
    \* Router
    notFoundSet,      \* the application called s.NotFoundHandler before Serve
    router,           \* registered middlewares, routes, not-found handler
    reqQueue,         \* the shared request queue
    pushLog,          \* requests in the order they entered reqQueue
    routerStopped,    \* router.stop() was called
    dPc,              \* position of each consumeRequest task
    dCtx,             \* the Context each consumeRequest task is handling
    dChain,           \* the resolved chain of that Context
    dIdx,             \* the next step of the chain
    handled,          \* Contexts whose chain has completed, in order
    \* broadcast example (main.go)
    nextId,           \* sessions.nextId
    storage,          \* sessions.storage
    createHookPc,     \* OnSessionCreate goroutine, per connection
    closeHookPc,      \* OnSessionClose goroutine, per connection
    bcastVisited,     \* storage keys the broadcast handler has ranged over
    sends,            \* sending goroutines started and not yet run
    crashed           \* the Go runtime aborted the process: nothing runs any more

serverVars == <<option, server, stopped, inFlightAtStop, listenerClosed, acceptPc, serveResult,
                acceptErrsLeft, acceptErr,
                pendingConns, stopPc, rangeVisited, hcPc, connCloseCalls,
                closeHookCalls>>
sessVars == <<sessId, closed, closeCallers, inPc, inPending, wire, outPc,
              respQueue, written>>
routerVars == <<notFoundSet, router, reqQueue, pushLog, routerStopped, dPc, dCtx, dChain,
                dIdx, handled>>
appVars == <<nextId, storage, createHookPc, closeHookPc, bcastVisited, sends,
             crashed>>
vars == <<serverVars, sessVars, registry, routerVars, appVars>>

\* ------------------------------------------------------------- NewServer
\* NewServer's defaulting of the two queue sizes.
NewServerReqQueueSize(opt) == IF opt < 0 THEN DefaultRespQueueSize ELSE opt

NewServerRespQueueSize(opt) == IF opt < 0 THEN DefaultReqQueueSize ELSE opt

\* A mutant: a WriteAttemptTimes of 0 is kept instead of replaced by the default.
NewServerWriteAttemptTimesKeepsZero(opt) ==
    IF opt < 0 THEN DefaultWriteAttemptTimes ELSE opt

NewServerWriteAttemptTimes(opt) ==
    IF opt <= 0 THEN DefaultWriteAttemptTimes ELSE opt

\* The ServerOption fields NewServer defaults.
ServerOption(req, resp, attempts) ==
    [ReqQueueSize |-> req, RespQueueSize |-> resp, WriteAttemptTimes |-> attempts]

\* NewServer(opt): the queue sizes and the attempt count of the Server built.
NewServer(opt) ==
    [built |-> TRUE,
     reqQueueSize |-> NewServerReqQueueSize(opt.ReqQueueSize),
     respQueueSize |-> NewServerRespQueueSize(opt.RespQueueSize),
     writeAttemptTimes |-> NewServerWriteAttemptTimes(opt.WriteAttemptTimes)]

\* No Server yet.
NoServer ==
    [built |-> FALSE, reqQueueSize |-> 0, respQueueSize |-> 0,
     writeAttemptTimes |-> 0]

\* The option of the server the other scenarios run.
ModelOption == ServerOption(ReqQueueSizeOpt, RespQueueSizeOpt, 0)

\* A mutant: the router queue gets one slot more than configured.
ReqQueueCapOffByOne == NewServerReqQueueSize(ReqQueueSizeOpt) + 1

\* router: newRouter(opt.ReqQueueSize): the capacity of the request queue.
ReqQueueCap == NewServerReqQueueSize(ReqQueueSizeOpt)

\* respQueueSize: opt.RespQueueSize, handed to every newSession.
RespQueueCap == NewServerRespQueueSize(RespQueueSizeOpt)

\* A mutant: Serve starts the dispatch task twice.
TwoConsumerTasks == {1, 2}

\* Serve: go s.router.consumeRequest(), once.
ConsumerTasks == {1}

\* ------------------------------------------------------ identifiers, registry
\* newSession's identifier: unique per session, never one the application sets.
DefaultID(c) == <<"default", c>>

\* The identifier the example's OnSessionCreate sets: sessions.nextId.
AppID(n) == <<"app", n>>

EmptyMap == [x \in {} |-> 0]

\* Sessions().Add(sess): the entry is stored under the identifier sess has now.
RegistryAdd(reg, k, c) ==
    [x \in DOMAIN reg \cup {k} |-> IF x = k THEN c ELSE reg[x]]

\* Sessions().Remove(id): deletes that key, if present; closes nothing.
RegistryRemove(reg, k) == [x \in DOMAIN reg \ {k} |-> reg[x]]

Registered(c) == \E k \in DOMAIN registry : registry[k] = c

\* ------------------------------------------------------------ registration
Middlewares == {"G1", "G2", "R1", "RB"}

\* A middleware calls next unless it is the short-circuiting RB.
CallsNext(step) == step \in {"G1", "G2", "R1"}

NewRouter == [globalMws |-> <<>>, routes |-> EmptyMap, notFound |-> "none"]

\* A mutant: AddRoute forgets to pass the middlewares on.
AddRouteDropsMiddlewares(r, id, handler, mws) ==
    [r EXCEPT !.routes = RegistryAdd(@, id, [handler |-> handler, mws |-> <<>>])]

\* Server.AddRoute: s.router.register(msgID, handler, middlewares...); the last
\* registration of an id replaces the earlier one.
AddRoute(r, id, handler, mws) ==
    [r EXCEPT !.routes = RegistryAdd(@, id, [handler |-> handler, mws |-> mws])]

\* Server.Use: s.router.registerMiddleware(middlewares...), in registration order.
Use(r, mws) == [r EXCEPT !.globalMws = @ \o mws]

\* A mutant: NotFoundHandler drops the handler it is given.
NotFoundHandlerIgnored(r, handler) == r

\* Server.NotFoundHandler: s.router.setNotFoundHandler(handler).
NotFoundHandler(r, handler) == [r EXCEPT !.notFound = handler]

\* The chain of a message id: global middlewares, the route's middlewares, the
\* terminal handler; the not-found handler (or a silent drop) without a route.
Resolve(r, id) ==
    IF id \in DOMAIN r.routes
    THEN r.globalMws \o r.routes[id].mws \o <<r.routes[id].handler>>
    ELSE IF r.notFound # "none" THEN r.globalMws \o <<r.notFound>>
    ELSE r.globalMws \o <<"drop">>

\* The routes the modelled application registers before Serve: X echoes behind
\* R1, Y sits behind the short-circuiting RB, B broadcasts; U has no route.
RoutedRouter ==
    AddRoute(AddRoute(AddRoute(Use(Use(NewRouter, <<"G1">>), <<"G2">>),
        "X", "echo", <<"R1">>), "Y", "echo", <<"RB">>), "B", "bcast", <<>>)

\* The same with a not-found handler set.
RoutedRouterNF == NotFoundHandler(RoutedRouter, "nf")

\* ------------------------------------------------------------------ entries
Entry(id, data) == [id |-> id, data |-> data]

NoEntry == Entry("none", 0)

\* Session.AllocateContext plus the request: a Context bound to session c.
NewContext(c, req) ==
    [sess |-> c, req |-> req, resp |-> NoEntry, marks |-> <<>>, trace |-> <<>>]

NoContext == NewContext(0, NoEntry)

\* ---------------------------------------------------------------- NewServer
\* NewServer(opt) is called.
NewServerCall ==
    /\ ~crashed
    /\ ~server.built
    /\ server' = NewServer(option)
    /\ UNCHANGED <<option, stopped, inFlightAtStop, listenerClosed, acceptPc,
                   serveResult, acceptErrsLeft, acceptErr, pendingConns, stopPc,
                   rangeVisited, hcPc, connCloseCalls, closeHookCalls, sessVars,
                   registry, routerVars, appVars>>

\* ------------------------------------------------------------------ Session
connClosed(c) == connCloseCalls[c] > 0

\* Session.Close(): the first trigger fires the one-shot close signal, every
\* other trigger is a no-op.
SessionClose(c, who) ==
    /\ closed' = [closed EXCEPT ![c] = TRUE]
    /\ closeCallers' = [closeCallers EXCEPT ![c] = @ \cup {who}]

\* readInbound: one packet is read and decoded from the connection.
InboundRead(c) ==
    /\ ~crashed
    /\ inPc[c] = "read"
    /\ ~connClosed(c)
    /\ wire[c] # <<>>
    /\ inPending' = [inPending EXCEPT ![c] = Head(wire[c])]
    /\ wire' = [wire EXCEPT ![c] = Tail(@)]
    /\ inPc' = [inPc EXCEPT ![c] = "push"]
    /\ UNCHANGED <<serverVars, sessId, closed, closeCallers, outPc, respQueue,
                   written, registry, routerVars, appVars>>

\* readInbound: the read fails (EOF, timeout, framing error, closed connection):
\* the task stops and closes the session.
InboundReadFail(c) ==
    /\ ~crashed
    /\ inPc[c] = "read"
    /\ inPc' = [inPc EXCEPT ![c] = "done"]
    /\ SessionClose(c, "read")
    /\ UNCHANGED <<serverVars, sessId, inPending, wire, outPc, respQueue,
                   written, registry, routerVars, appVars>>

\* readInbound: the Context is pushed onto the router's request queue, blocking
\* while the queue is full.
InboundPush(c) ==
    /\ ~crashed
    /\ inPc[c] = "push"
    /\ Len(reqQueue) < ReqQueueCap
    /\ reqQueue' = Append(reqQueue, NewContext(c, inPending[c]))
    /\ pushLog' = Append(pushLog, <<c, inPending[c]>>)
    /\ inPending' = [inPending EXCEPT ![c] = NoEntry]
    /\ inPc' = [inPc EXCEPT ![c] = "read"]
    /\ UNCHANGED <<serverVars, sessId, closed, closeCallers, wire, outPc,
                   respQueue, written, registry, notFoundSet, router, routerStopped, dPc,
                   dCtx, dChain, dIdx, handled, appVars>>

\* writeOutbound: one entry is taken from the response queue and written.
OutboundWrite(c) ==
    /\ ~crashed
    /\ outPc[c] = "run"
    /\ respQueue[c] # <<>>
    /\ ~connClosed(c)
    /\ written' = [written EXCEPT ![c] = Append(@, Head(respQueue[c]))]
    /\ respQueue' = [respQueue EXCEPT ![c] = Tail(@)]
    /\ UNCHANGED <<serverVars, sessId, closed, closeCallers, inPc, inPending,
                   wire, outPc, registry, routerVars, appVars>>

\* writeOutbound: the write fails after its attempts: the task stops and closes
\* the session.
OutboundWriteFail(c) ==
    /\ ~crashed
    /\ outPc[c] = "run"
    /\ respQueue[c] # <<>>
    /\ respQueue' = [respQueue EXCEPT ![c] = Tail(@)]
    /\ outPc' = [outPc EXCEPT ![c] = "done"]
    /\ SessionClose(c, "write")
    /\ UNCHANGED <<serverVars, sessId, inPc, inPending, wire, written,
                   registry, routerVars, appVars>>

\* writeOutbound: the close signal is selected: the task exits.
OutboundExit(c) ==
    /\ ~crashed
    /\ outPc[c] = "run"
    /\ closed[c]
    /\ outPc' = [outPc EXCEPT ![c] = "done"]
    /\ UNCHANGED <<serverVars, sessId, closed, closeCallers, inPc, inPending,
                   wire, respQueue, written, registry, routerVars, appVars>>

\* ------------------------------------------------------ Serve, acceptLoop
MinOf(S) == CHOOSE x \in S : \A y \in S : x <= y

\* Serve: the listener is set, the dispatch task is started, acceptLoop begins.
Serve ==
    /\ ~crashed
    /\ acceptPc = "init"
    /\ acceptPc' = "top"
    /\ dPc' = [d \in ConsumerTasks |-> "recv"]
    /\ UNCHANGED <<option, server, stopped, inFlightAtStop,
                   listenerClosed, serveResult, acceptErrsLeft, acceptErr,
                   pendingConns, stopPc, rangeVisited, hcPc, connCloseCalls,
                   closeHookCalls, sessVars, registry, notFoundSet, router, reqQueue,
                   pushLog, routerStopped, dCtx, dChain, dIdx, handled, appVars>>

\* acceptLoop, top of the loop: if s.isStopped() return ErrServerStopped.
AcceptTop ==
    /\ ~crashed
    /\ acceptPc = "top"
    /\ IF stopped
       THEN acceptPc' = "done" /\ serveResult' = "ErrServerStopped"
       ELSE acceptPc' = "accept" /\ UNCHANGED serveResult
    /\ UNCHANGED <<option, server, stopped, inFlightAtStop,
                   listenerClosed, acceptErrsLeft, acceptErr, pendingConns, stopPc,
                   rangeVisited, hcPc, connCloseCalls, closeHookCalls, sessVars,
                   registry, routerVars, appVars>>

\* acceptLoop: Accept returns a connection; with no socket option set the loop
\* goes straight to go s.handleConn(conn).
AcceptConn ==
    /\ ~crashed
    /\ acceptPc = "accept"
    /\ ~listenerClosed
    /\ pendingConns # {}
    /\ LET c == MinOf(pendingConns) IN
        /\ pendingConns' = pendingConns \ {c}
        /\ hcPc' = [hcPc EXCEPT ![c] = "new"]
    /\ acceptPc' = "top"
    /\ acceptErr' = "nil"
    /\ UNCHANGED <<option, server, stopped, inFlightAtStop,
                   listenerClosed, serveResult, acceptErrsLeft, stopPc,
                   rangeVisited, connCloseCalls, closeHookCalls, sessVars,
                   registry, routerVars, appVars>>

\* A mutant: a temporary accept error ends the loop like any other.
AcceptErrNoRetry ==
    /\ ~crashed
    /\ acceptPc = "accept"
    /\ listenerClosed \/ acceptErrsLeft > 0
    /\ \E temporary \in BOOLEAN :
        /\ listenerClosed => ~temporary
        /\ acceptErr' = IF temporary THEN "temporary" ELSE "other"
        /\ IF stopped
           THEN acceptPc' = "done" /\ serveResult' = "ErrServerStopped"
           ELSE acceptPc' = "done" /\ serveResult' = "accept err"
    /\ acceptErrsLeft' = IF listenerClosed THEN acceptErrsLeft ELSE acceptErrsLeft - 1
    /\ UNCHANGED <<option, server, stopped, inFlightAtStop,
                   listenerClosed, pendingConns, stopPc, rangeVisited,
                   hcPc, connCloseCalls, closeHookCalls, sessVars, registry,
                   routerVars, appVars>>

\* acceptLoop: Accept returns an error (always, and not a temporary one, once
\* the listener is closed): ErrServerStopped if stopped, a retry after
\* tempErrDelay if temporary, the error otherwise.
AcceptErr ==
    /\ ~crashed
    /\ acceptPc = "accept"
    /\ listenerClosed \/ acceptErrsLeft > 0
    /\ \E temporary \in BOOLEAN :
        /\ listenerClosed => ~temporary
        /\ acceptErr' = IF temporary THEN "temporary" ELSE "other"
        /\ IF stopped
           THEN acceptPc' = "done" /\ serveResult' = "ErrServerStopped"
           ELSE IF temporary
           THEN acceptPc' = "sleep" /\ UNCHANGED serveResult
           ELSE acceptPc' = "done" /\ serveResult' = "accept err"
    /\ acceptErrsLeft' = IF listenerClosed THEN acceptErrsLeft ELSE acceptErrsLeft - 1
    /\ UNCHANGED <<option, server, stopped, inFlightAtStop,
                   listenerClosed, pendingConns, stopPc, rangeVisited,
                   hcPc, connCloseCalls, closeHookCalls, sessVars, registry,
                   routerVars, appVars>>

\* acceptLoop: time.Sleep(tempErrDelay) is over; continue.
AcceptSleepDone ==
    /\ ~crashed
    /\ acceptPc = "sleep"
    /\ acceptPc' = "top"
    /\ UNCHANGED <<option, server, stopped, inFlightAtStop,
                   listenerClosed, serveResult, acceptErrsLeft, acceptErr,
                   pendingConns, stopPc, rangeVisited, hcPc, connCloseCalls,
                   closeHookCalls, sessVars, registry, routerVars, appVars>>

\* --------------------------------------------------------------- handleConn
\* A mutant: handleConn creates the session and forgets Sessions().Add(sess).
HandleConnAddForgotten(c) ==
    /\ ~crashed
    /\ hcPc[c] = "new"
    /\ hcPc' = [hcPc EXCEPT ![c] = "added"]
    /\ UNCHANGED <<option, server, stopped, inFlightAtStop, listenerClosed,
                   acceptPc, serveResult, acceptErrsLeft, acceptErr, pendingConns,
                   stopPc, rangeVisited, connCloseCalls, closeHookCalls, sessVars,
                   registry, routerVars, appVars>>

\* handleConn: newSession(conn, ...) and Sessions().Add(sess).
HandleConnAdd(c) ==
    /\ ~crashed
    /\ hcPc[c] = "new"
    /\ registry' = RegistryAdd(registry, sessId[c], c)
    /\ hcPc' = [hcPc EXCEPT ![c] = "added"]
    /\ UNCHANGED <<option, server, stopped, inFlightAtStop,
                   listenerClosed, acceptPc, serveResult, acceptErrsLeft, acceptErr,
                   pendingConns, stopPc, rangeVisited, connCloseCalls,
                   closeHookCalls, sessVars, routerVars, appVars>>

\* handleConn: go s.OnSessionCreate(sess); go sess.readInbound(...);
\* go sess.writeOutbound(...); then it waits on sess.closed.
HandleConnStart(c) ==
    /\ ~crashed
    /\ hcPc[c] = "added"
    /\ createHookPc' = [createHookPc EXCEPT ![c] = "spawned"]
    /\ inPc' = [inPc EXCEPT ![c] = "read"]
    /\ outPc' = [outPc EXCEPT ![c] = "run"]
    /\ hcPc' = [hcPc EXCEPT ![c] = "wait"]
    /\ UNCHANGED <<option, server, stopped, inFlightAtStop,
                   listenerClosed, acceptPc, serveResult, acceptErrsLeft, acceptErr,
                   pendingConns, stopPc, rangeVisited, connCloseCalls,
                   closeHookCalls, sessId, closed, closeCallers, inPending,
                   wire, respQueue, written, registry, routerVars, nextId,
                   storage, closeHookPc, bcastVisited, sends, crashed>>

\* A mutant: handleConn does not wait for the close signal.
HandleConnRemoveNoWait(c) ==
    /\ ~crashed
    /\ hcPc[c] = "wait"
    /\ registry' = RegistryRemove(registry, sessId[c])
    /\ closeHookPc' = [closeHookPc EXCEPT ![c] = "spawned"]
    /\ closeHookCalls' = [closeHookCalls EXCEPT ![c] = @ + 1]
    /\ hcPc' = [hcPc EXCEPT ![c] = "removed"]
    /\ UNCHANGED <<option, server, stopped, inFlightAtStop,
                   listenerClosed, acceptPc, serveResult, acceptErrsLeft, acceptErr,
                   pendingConns, stopPc, rangeVisited, connCloseCalls, sessVars,
                   routerVars, nextId, storage, createHookPc, bcastVisited,
                   sends, crashed>>

\* handleConn: <-sess.closed; Sessions().Remove(sess.ID());
\* go s.OnSessionClose(sess).
HandleConnRemove(c) ==
    /\ ~crashed
    /\ hcPc[c] = "wait"
    /\ closed[c]
    /\ registry' = RegistryRemove(registry, sessId[c])
    /\ closeHookPc' = [closeHookPc EXCEPT ![c] = "spawned"]
    /\ closeHookCalls' = [closeHookCalls EXCEPT ![c] = @ + 1]
    /\ hcPc' = [hcPc EXCEPT ![c] = "removed"]
    /\ UNCHANGED <<option, server, stopped, inFlightAtStop,
                   listenerClosed, acceptPc, serveResult, acceptErrsLeft, acceptErr,
                   pendingConns, stopPc, rangeVisited, connCloseCalls, sessVars,
                   routerVars, nextId, storage, createHookPc, bcastVisited,
                   sends, crashed>>

\* A mutant: handleConn calls s.OnSessionClose(sess) itself and goes on to
\* conn.Close() only when the hook has returned.
HandleConnCloseAfterHook(c) ==
    /\ ~crashed
    /\ hcPc[c] = "removed"
    /\ closeHookPc[c] = "done"
    /\ connCloseCalls' = [connCloseCalls EXCEPT ![c] = @ + 1]
    /\ hcPc' = [hcPc EXCEPT ![c] = "done"]
    /\ UNCHANGED <<option, server, stopped, inFlightAtStop,
                   listenerClosed, acceptPc, serveResult, acceptErrsLeft, acceptErr,
                   pendingConns, stopPc, rangeVisited, closeHookCalls, sessVars,
                   registry, routerVars, appVars>>

\* handleConn: conn.Close(), after which it returns.
HandleConnClose(c) ==
    /\ ~crashed
    /\ hcPc[c] = "removed"
    /\ connCloseCalls' = [connCloseCalls EXCEPT ![c] = @ + 1]
    /\ hcPc' = [hcPc EXCEPT ![c] = "done"]
    /\ UNCHANGED <<option, server, stopped, inFlightAtStop,
                   listenerClosed, acceptPc, serveResult, acceptErrsLeft, acceptErr,
                   pendingConns, stopPc, rangeVisited, closeHookCalls, sessVars,
                   registry, routerVars, appVars>>

\* --------------------------------------------------------------------- Stop
\* Stop: close(s.stopped); the Range over the registry begins.
StopBegin ==
    /\ ~crashed
    /\ stopPc = "idle"
    /\ acceptPc # "init"
    /\ stopped' = TRUE
    /\ inFlightAtStop' = {<<dCtx[d].sess, dCtx[d].req>> :
                            d \in {e \in DOMAIN dPc : dPc[e] \in {"chain", "post"}}}
    /\ rangeVisited' = {}
    /\ stopPc' = "range"
    /\ UNCHANGED <<option, server, listenerClosed, acceptPc, serveResult, acceptErrsLeft, acceptErr,
                   pendingConns, hcPc, connCloseCalls, closeHookCalls, sessVars,
                   registry, routerVars, appVars>>

\* A mutant: Stop's callback also closes the session's connection itself.
StopRangeStepClosesConn(k) ==
    /\ ~crashed
    /\ stopPc = "range"
    /\ k \in DOMAIN registry \ rangeVisited
    /\ SessionClose(registry[k], "stop")
    /\ connCloseCalls' = [connCloseCalls EXCEPT ![registry[k]] = @ + 1]
    /\ rangeVisited' = rangeVisited \cup {k}
    /\ UNCHANGED <<option, server, stopped, inFlightAtStop,
                   listenerClosed, acceptPc, serveResult, acceptErrsLeft, acceptErr,
                   pendingConns, stopPc, hcPc, closeHookCalls, sessId, inPc,
                   inPending, wire, outPc, respQueue, written, registry,
                   routerVars, appVars>>

\* Stop: the Range callback on one registered session: sess.Close().
StopRangeStep(k) ==
    /\ ~crashed
    /\ stopPc = "range"
    /\ k \in DOMAIN registry \ rangeVisited
    /\ SessionClose(registry[k], "stop")
    /\ rangeVisited' = rangeVisited \cup {k}
    /\ UNCHANGED <<option, server, stopped, inFlightAtStop,
                   listenerClosed, acceptPc, serveResult, acceptErrsLeft, acceptErr,
                   pendingConns, stopPc, hcPc, connCloseCalls, closeHookCalls,
                   sessId, inPc, inPending, wire, outPc, respQueue, written,
                   registry, routerVars, appVars>>

\* A mutant: Stop calls s.router.stop() without finishing the Range first.
StopRouterBeforeRangeEnds ==
    /\ ~crashed
    /\ stopPc = "range"
    /\ routerStopped' = TRUE
    /\ stopPc' = "listener"
    /\ UNCHANGED <<option, server, stopped, inFlightAtStop,
                   listenerClosed, acceptPc, serveResult, acceptErrsLeft, acceptErr,
                   pendingConns, rangeVisited, hcPc, connCloseCalls,
                   closeHookCalls, sessVars, registry, notFoundSet, router, reqQueue,
                   pushLog, dPc, dCtx, dChain, dIdx, handled, appVars>>

\* Stop: the Range has visited every entry; s.router.stop().
StopRouter ==
    /\ ~crashed
    /\ stopPc = "range"
    /\ DOMAIN registry \subseteq rangeVisited
    /\ routerStopped' = TRUE
    /\ stopPc' = "listener"
    /\ UNCHANGED <<option, server, stopped, inFlightAtStop,
                   listenerClosed, acceptPc, serveResult, acceptErrsLeft, acceptErr,
                   pendingConns, rangeVisited, hcPc, connCloseCalls,
                   closeHookCalls, sessVars, registry, notFoundSet, router, reqQueue,
                   pushLog, dPc, dCtx, dChain, dIdx, handled, appVars>>

\* A mutant: Stop returns without closing the listener.
StopListenerLeftOpen ==
    /\ ~crashed
    /\ stopPc = "listener"
    /\ stopPc' = "done"
    /\ UNCHANGED <<option, server, stopped, inFlightAtStop, listenerClosed,
                   acceptPc, serveResult, acceptErrsLeft, acceptErr, pendingConns,
                   rangeVisited, hcPc, connCloseCalls, closeHookCalls, sessVars,
                   registry, routerVars, appVars>>

\* Stop: return s.Listener.Close().
StopListener ==
    /\ ~crashed
    /\ stopPc = "listener"
    /\ listenerClosed' = TRUE
    /\ stopPc' = "done"
    /\ UNCHANGED <<option, server, stopped, inFlightAtStop,
                   acceptPc, serveResult, acceptErrsLeft, acceptErr, pendingConns,
                   rangeVisited, hcPc, connCloseCalls, closeHookCalls, sessVars,
                   registry, routerVars, appVars>>

\* Stop, called again after it has returned: close(s.stopped) on a channel that
\* is already closed panics (close of closed channel), before anything else.
StopSecondCall ==
    /\ ~crashed
    /\ stopPc = "done"
    /\ stopPc' = "second"
    /\ crashed' = stopped
    /\ UNCHANGED <<option, server, stopped, inFlightAtStop, listenerClosed,
                   acceptPc, serveResult, acceptErrsLeft, acceptErr, pendingConns,
                   rangeVisited, hcPc, connCloseCalls, closeHookCalls, sessVars,
                   registry, routerVars, nextId, storage, createHookPc,
                   closeHookPc, bcastVisited, sends>>

\* ------------------------------------------------- hooks of the example
\* OnSessionCreate (main.go): under sessions.lock, sess.SetID(sessions.nextId),
\* sessions.nextId++, sessions.storage[id] = sess.
OnSessionCreateRun(c) ==
    /\ ~crashed
    /\ createHookPc[c] = "spawned"
    /\ sessId' = [sessId EXCEPT ![c] = AppID(nextId)]
    /\ storage' = RegistryAdd(storage, nextId, c)
    /\ nextId' = nextId + 1
    /\ createHookPc' = [createHookPc EXCEPT ![c] = "done"]
    /\ UNCHANGED <<serverVars, closed, closeCallers, inPc, inPending, wire,
                   outPc, respQueue, written, registry, routerVars,
                   closeHookPc, bcastVisited, sends, crashed>>

\* OnSessionClose (main.go): delete(sessions.storage, sess.ID()).
OnSessionCloseRun(c) ==
    /\ ~crashed
    /\ closeHookPc[c] = "spawned"
    /\ storage' = IF sessId[c][1] = "app"
                  THEN RegistryRemove(storage, sessId[c][2])
                  ELSE storage
    /\ closeHookPc' = [closeHookPc EXCEPT ![c] = "done"]
    /\ UNCHANGED <<serverVars, sessVars, registry, routerVars, nextId,
                   createHookPc, bcastVisited, sends, crashed>>

\* go s.OnSessionCreate(sess) where the hook panics: the goroutine runs the
\* hook with no recover, so the Go runtime aborts the process.
OnSessionCreatePanic(c) ==
    /\ ~crashed
    /\ createHookPc[c] = "spawned"
    /\ createHookPc' = [createHookPc EXCEPT ![c] = "panicked"]
    /\ crashed' = TRUE
    /\ UNCHANGED <<serverVars, sessVars, registry, routerVars, nextId, storage,
                   closeHookPc, bcastVisited, sends>>

\* go s.OnSessionClose(sess) where the hook panics: likewise.
OnSessionClosePanic(c) ==
    /\ ~crashed
    /\ closeHookPc[c] = "spawned"
    /\ closeHookPc' = [closeHookPc EXCEPT ![c] = "panicked"]
    /\ crashed' = TRUE
    /\ UNCHANGED <<serverVars, sessVars, registry, routerVars, nextId, storage,
                   createHookPc, bcastVisited, sends>>

\* ------------------------------------------------------------------- Router
\* One step of a chain acting on the Context: it records what it saw of the
\* earlier steps' mutations, leaves its own, and a handler sets the response.
ApplyStep(ctx, step) ==
    LET seen == [ctx EXCEPT !.trace = Append(@, [step |-> step, saw |-> ctx.marks]),
                            !.marks = Append(@, step)]
    IN  CASE step = "echo" -> [seen EXCEPT !.resp = Entry("ACK", ctx.req.data)]
          [] step = "nf"   -> [seen EXCEPT !.resp = Entry("NF", ctx.req.data)]
          [] OTHER         -> seen

\* consumeRequest: the next Context is taken off the request queue and its chain
\* is resolved.
DispatchRecv(d) ==
    /\ ~crashed
    /\ dPc[d] = "recv"
    /\ ~routerStopped
    /\ reqQueue # <<>>
    /\ dCtx' = [dCtx EXCEPT ![d] = Head(reqQueue)]
    /\ reqQueue' = Tail(reqQueue)
    /\ dChain' = [dChain EXCEPT ![d] = Resolve(router, Head(reqQueue).req.id)]
    /\ dIdx' = [dIdx EXCEPT ![d] = 1]
    /\ dPc' = [dPc EXCEPT ![d] = "chain"]
    /\ UNCHANGED <<serverVars, sessVars, registry, notFoundSet, router, pushLog,
                   routerStopped, handled, appVars>>

\* consumeRequest: the router was stopped; the task takes no further Context.
DispatchExit(d) ==
    /\ ~crashed
    /\ dPc[d] = "recv"
    /\ routerStopped
    /\ dPc' = [dPc EXCEPT ![d] = "done"]
    /\ UNCHANGED <<serverVars, sessVars, registry, notFoundSet, router, reqQueue, pushLog,
                   routerStopped, dCtx, dChain, dIdx, handled, appVars>>

\* consumeRequest: the next middleware or handler of the chain runs; the chain
\* goes on only if a middleware calls next.
DispatchStep(d) ==
    /\ ~crashed
    /\ dPc[d] = "chain"
    /\ dChain[d][dIdx[d]] # "bcast"
    /\ dCtx' = [dCtx EXCEPT ![d] = ApplyStep(@, dChain[d][dIdx[d]])]
    /\ IF CallsNext(dChain[d][dIdx[d]])
       THEN dIdx' = [dIdx EXCEPT ![d] = @ + 1] /\ UNCHANGED dPc
       ELSE dPc' = [dPc EXCEPT ![d] = "post"] /\ UNCHANGED dIdx
    /\ UNCHANGED <<serverVars, sessVars, registry, notFoundSet, router, reqQueue, pushLog,
                   routerStopped, dChain, handled, appVars>>

\* consumeRequest: the chain is over; a response, if one was set, is posted to
\* the response queue of the Context's session, blocking while that is full.
DispatchPost(d) ==
    /\ ~crashed
    /\ dPc[d] = "post"
    /\ IF dCtx[d].resp.id = "none"
       THEN UNCHANGED respQueue
       ELSE /\ Len(respQueue[dCtx[d].sess]) < RespQueueCap
            /\ respQueue' = [respQueue EXCEPT ![dCtx[d].sess] = Append(@, dCtx[d].resp)]
    /\ handled' = Append(handled, dCtx[d])
    /\ dCtx' = [dCtx EXCEPT ![d] = NoContext]
    /\ dPc' = [dPc EXCEPT ![d] = "recv"]
    /\ UNCHANGED <<serverVars, sessId, closed, closeCallers, inPc, inPending,
                   wire, outPc, written, registry, notFoundSet, router, reqQueue, pushLog,
                   routerStopped, dChain, dIdx, appVars>>

\* -------------------------------------------- broadcast handler (main.go)
\* One iteration of for _, sess := range sessions.storage: the current session
\* is skipped, any other gets its respEntry and a sending goroutine.
BcastIter(d, k) ==
    /\ ~crashed
    /\ dPc[d] = "chain"
    /\ dChain[d][dIdx[d]] = "bcast"
    /\ k \in DOMAIN storage \ bcastVisited
    /\ bcastVisited' = bcastVisited \cup {k}
    /\ sends' = IF sessId[dCtx[d].sess] = sessId[storage[k]]
                THEN sends
                ELSE sends \cup {[target |-> storage[k],
                                  from |-> sessId[dCtx[d].sess],
                                  to |-> sessId[storage[k]]]}
    /\ UNCHANGED <<serverVars, sessVars, registry, routerVars, nextId, storage,
                   createHookPc, closeHookPc, crashed>>

\* The range is over: ctx.SetResponseMessage("broadcast done").
BcastDone(d) ==
    /\ ~crashed
    /\ dPc[d] = "chain"
    /\ dChain[d][dIdx[d]] = "bcast"
    /\ DOMAIN storage \subseteq bcastVisited
    /\ bcastVisited' = {}
    /\ dCtx' = [dCtx EXCEPT ![d] =
                 [ApplyStep(@, "bcast") EXCEPT !.resp = Entry("BACK", <<"done">>)]]
    /\ dPc' = [dPc EXCEPT ![d] = "post"]
    /\ UNCHANGED <<serverVars, sessVars, registry, notFoundSet, router, reqQueue, pushLog,
                   routerStopped, dChain, dIdx, handled, nextId, storage,
                   createHookPc, closeHookPc, sends, crashed>>

\* A sending goroutine: targetSession.AllocateContext().
\* SetResponseMessage(respEntry).Send().
SendRun(g) ==
    /\ ~crashed
    /\ g \in sends
    /\ Len(respQueue[g.target]) < RespQueueCap
    /\ respQueue' = [respQueue EXCEPT ![g.target] =
                      Append(@, Entry("BACK", <<g.from, g.to>>))]
    /\ sends' = sends \ {g}
    /\ UNCHANGED <<serverVars, sessId, closed, closeCallers, inPc, inPending,
                   wire, outPc, written, registry, routerVars, nextId, storage,
                   createHookPc, closeHookPc, bcastVisited, crashed>>

\* The handler ranges over sessions.storage without the lock while a hook is
\* about to write it: the Go runtime may abort the process (concurrent map
\* iteration and map write).
MapRaceCrash ==
    /\ ~crashed
    /\ \E d \in DOMAIN dPc : dPc[d] = "chain" /\ dChain[d][dIdx[d]] = "bcast"
    /\ \E c \in Conns : createHookPc[c] = "spawned" \/ closeHookPc[c] = "spawned"
    /\ crashed' = TRUE
    /\ UNCHANGED <<serverVars, sessVars, registry, routerVars, nextId, storage,
                   createHookPc, closeHookPc, bcastVisited, sends>>

\* --------------------------------------------------------------------- Init
\* What every scenario shares: a server just built by NewServer, its routes
\* registered, nothing accepted.
InitCommon ==
    /\ stopped = FALSE
    /\ acceptErr = "nil"
    /\ inFlightAtStop = {}
    /\ listenerClosed = FALSE
    /\ serveResult = "none"
    /\ stopPc = "idle"
    /\ rangeVisited = {}
    /\ connCloseCalls = [c \in Conns |-> 0]
    /\ closeHookCalls = [c \in Conns |-> 0]
    /\ closed = [c \in Conns |-> FALSE]
    /\ closeCallers = [c \in Conns |-> {}]
    /\ inPending = [c \in Conns |-> NoEntry]
    /\ respQueue = [c \in Conns |-> <<>>]
    /\ written = [c \in Conns |-> <<>>]
    /\ reqQueue = <<>>
    /\ pushLog = <<>>
    /\ routerStopped = FALSE
    /\ dCtx = [d \in ConsumerTasks |-> NoContext]
    /\ dChain = [d \in ConsumerTasks |-> <<>>]
    /\ dIdx = [d \in ConsumerTasks |-> 1]
    /\ handled = <<>>
    /\ closeHookPc = [c \in Conns |-> "none"]
    /\ bcastVisited = {}
    /\ sends = {}
    /\ crashed = FALSE

\* A server on which Serve is yet to be called: the peers in `peers` will
\* connect, those in `senders` send one request for X each, and Accept
\* returns `errs` errors while the listener is open.
InitUnserved(errs, peers, senders) ==
    /\ InitCommon
    /\ option = ModelOption
    /\ server = NewServer(ModelOption)
    /\ acceptPc = "init"
    /\ acceptErrsLeft = errs
    /\ pendingConns = peers
    /\ hcPc = [c \in Conns |-> "none"]
    /\ inPc = [c \in Conns |-> "idle"]
    /\ outPc = [c \in Conns |-> "idle"]
    /\ wire = [c \in Conns |-> IF c \in senders THEN <<Entry("X", 1)>> ELSE <<>>]
    /\ registry = EmptyMap
    /\ notFoundSet = FALSE
    /\ router = RoutedRouter
    /\ dPc = [d \in ConsumerTasks |-> "off"]
    /\ createHookPc = [c \in Conns |-> "none"]
    /\ sessId = [c \in Conns |-> DefaultID(c)]
    /\ nextId = 1
    /\ storage = EmptyMap

\* The lifecycle scenario: LifeConns peers connect, the first of them sends a
\* request, and Accept fails only once the listener is closed.
Init == InitUnserved(0, 1..LifeConns, {1})

SessionStep(c) ==
    \/ InboundRead(c)
    \/ InboundReadFail(c)
    \/ InboundPush(c)
    \/ OutboundWrite(c)
    \/ OutboundWriteFail(c)
    \/ OutboundExit(c)

Next ==
    \/ Serve
    \/ AcceptTop
    \/ AcceptConn
    \/ AcceptErr
    \/ StopBegin
    \/ \E k \in DOMAIN registry : StopRangeStep(k)
    \/ StopRouter
    \/ StopListener
    \/ \E c \in Conns :
        \/ HandleConnAdd(c)
        \/ HandleConnStart(c)
        \/ HandleConnRemove(c)
        \/ HandleConnClose(c)
        \/ OnSessionCreateRun(c)
        \/ OnSessionCloseRun(c)
        \/ SessionStep(c)
    \/ \E d \in ConsumerTasks :
        \/ DispatchRecv(d)
        \/ DispatchExit(d)
        \/ DispatchStep(d)
        \/ DispatchPost(d)

Spec == Init /\ [][Next]_vars

\* ------------------------------------------------------- routing scenario
\* The requests a session's peer sends in the routing scenario: session 1 sends
\* WireLen requests for X, marked 1..WireLen; every other session sends one for
\* the unrouted U and one for Y.
RouterWire(c) ==
    IF c = 1 THEN [i \in 1..WireLen |-> Entry("X", i)]
    ELSE <<Entry("U", 1), Entry("Y", 2)>>

\* RouterConns sessions are accepted, registered and running (handleConn waits
\* on their close signal), their OnSessionCreate hooks have run, the accept
\* loop is blocked in Accept and the dispatch task is waiting for a request.
InitRouter ==
    /\ InitCommon
    /\ option = ModelOption
    /\ server = NewServer(ModelOption)
    /\ acceptPc = "accept"
    /\ acceptErrsLeft = 0
    /\ pendingConns = {}
    /\ hcPc = [c \in Conns |-> IF c <= RouterConns THEN "wait" ELSE "none"]
    /\ inPc = [c \in Conns |-> IF c <= RouterConns THEN "read" ELSE "idle"]
    /\ outPc = [c \in Conns |-> IF c <= RouterConns THEN "run" ELSE "idle"]
    /\ wire = [c \in Conns |-> IF c <= RouterConns THEN RouterWire(c) ELSE <<>>]
    /\ registry = [k \in {DefaultID(c) : c \in 1..RouterConns} |-> k[2]]
    /\ notFoundSet \in BOOLEAN
    /\ router = IF notFoundSet THEN RoutedRouterNF ELSE RoutedRouter
    /\ dPc = [d \in ConsumerTasks |-> "recv"]
    /\ createHookPc = [c \in Conns |-> IF c <= RouterConns THEN "done" ELSE "none"]
    /\ sessId = [c \in Conns |-> IF c <= RouterConns THEN AppID(c) ELSE DefaultID(c)]
    /\ nextId = RouterConns + 1
    /\ storage = [n \in 1..RouterConns |-> n]

\* No connection fails in this scenario: the sessions read, push and write, and
\* the dispatch task handles what they push.
NextRouter ==
    \/ \E c \in Conns :
        \/ InboundRead(c)
        \/ InboundPush(c)
        \/ OutboundWrite(c)
    \/ \E d \in ConsumerTasks :
        \/ DispatchRecv(d)
        \/ DispatchStep(d)
        \/ DispatchPost(d)

SpecRouter == InitRouter /\ [][NextRouter]_vars

\* ----------------------------------------------------- broadcast scenario
\* The example server with sessions A, B, C (1, 2, 3, ...) connected: each is
\* registered and running, its OnSessionCreate goroutine is started and has not
\* run yet, and A's peer sends one broadcast request.
InitBroadcast ==
    /\ InitCommon
    /\ option = ModelOption
    /\ server = NewServer(ModelOption)
    /\ acceptPc = "accept"
    /\ acceptErrsLeft = 0
    /\ pendingConns = {}
    /\ hcPc = [c \in Conns |-> "wait"]
    /\ inPc = [c \in Conns |-> "read"]
    /\ outPc = [c \in Conns |-> "run"]
    /\ wire = [c \in Conns |-> IF c = 1 THEN <<Entry("B", 1)>> ELSE <<>>]
    /\ registry = [k \in {DefaultID(c) : c \in Conns} |-> k[2]]
    /\ notFoundSet = FALSE
    /\ router = RoutedRouter
    /\ dPc = [d \in ConsumerTasks |-> "recv"]
    /\ createHookPc = [c \in Conns |-> "spawned"]
    /\ sessId = [c \in Conns |-> DefaultID(c)]
    /\ nextId = 1
    /\ storage = EmptyMap

NextBroadcast ==
    \/ \E c \in Conns :
        \/ OnSessionCreateRun(c)
        \/ InboundRead(c)
        \/ InboundPush(c)
        \/ OutboundWrite(c)
    \/ \E d \in ConsumerTasks :
        \/ DispatchRecv(d)
        \/ DispatchStep(d)
        \/ \E k \in DOMAIN storage : BcastIter(d, k)
        \/ BcastDone(d)
        \/ DispatchPost(d)
    \/ \E g \in sends : SendRun(g)
    \/ MapRaceCrash

SpecBroadcast == InitBroadcast /\ [][NextBroadcast]_vars

\* ------------------------------------------------------ NewServer scenario
\* Any option with its three sizes in -MaxOpt..MaxOpt; NewServer is yet to be
\* called and nothing else happens.
InitNewServer ==
    /\ InitCommon
    /\ option \in {ServerOption(req, resp, attempts) :
                    req \in -MaxOpt..MaxOpt, resp \in -MaxOpt..MaxOpt,
                    attempts \in -MaxOpt..MaxOpt}
    /\ server = NoServer
    /\ acceptPc = "init"
    /\ acceptErrsLeft = 0
    /\ pendingConns = {}
    /\ hcPc = [c \in Conns |-> "none"]
    /\ inPc = [c \in Conns |-> "idle"]
    /\ outPc = [c \in Conns |-> "idle"]
    /\ wire = [c \in Conns |-> <<>>]
    /\ registry = EmptyMap
    /\ notFoundSet = FALSE
    /\ router = NewRouter
    /\ dPc = [d \in ConsumerTasks |-> "off"]
    /\ createHookPc = [c \in Conns |-> "none"]
    /\ sessId = [c \in Conns |-> DefaultID(c)]
    /\ nextId = 1
    /\ storage = EmptyMap

NextNewServer == NewServerCall

SpecNewServer == InitNewServer /\ [][NextNewServer]_vars

\* ------------------------------------------------------ second-Stop scenario
\* The lifecycle scenario in which Stop is called a second time.
NextStopTwice ==
    \/ Next
    \/ StopSecondCall

SpecStopTwice == Init /\ [][NextStopTwice]_vars

\* ------------------------------------------------------ two-server scenario
\* Two Server instances in one process: the server whose Stop is modelled
\* accepted session 1, another instance accepted the sessions in
\* OtherServerConns. Sessions() is one registry for the process and holds them
\* all; every handleConn, whichever server runs it, adds to and removes from it.
OtherServerConns == 2..RouterConns

\* The established sessions of InitRouter; the other server is never stopped,
\* no connection fails by itself, and Stop is called on the first server.
NextTwoServers ==
    \/ StopBegin
    \/ \E k \in DOMAIN registry : StopRangeStep(k)
    \/ StopRouter
    \/ StopListener
    \/ AcceptErr
    \/ \E c \in Conns :
        \/ OutboundExit(c)
        \/ HandleConnRemove(c)
        \/ HandleConnClose(c)
        \/ OnSessionCloseRun(c)
    \/ \E d \in ConsumerTasks : DispatchExit(d)

SpecTwoServers == InitRouter /\ [][NextTwoServers]_vars

\* ----------------------------------------------------- hook-fault scenario
\* The lifecycle scenario with hooks that may panic.
NextHookFault ==
    \/ Next
    \/ \E c \in Conns :
        \/ OnSessionCreatePanic(c)
        \/ OnSessionClosePanic(c)

SpecHookFault == Init /\ [][NextHookFault]_vars

\* ------------------------------------------------------- shutdown scenario
\* One session is established and its peer sends WireLen requests for X; the
\* accept loop is blocked in Accept, the dispatch task is waiting; no
\* connection fails by itself, and Stop is called at any moment.
InitShutdown ==
    /\ InitCommon
    /\ option = ModelOption
    /\ server = NewServer(ModelOption)
    /\ acceptPc = "accept"
    /\ acceptErrsLeft = 0
    /\ pendingConns = {}
    /\ hcPc = [c \in Conns |-> IF c = 1 THEN "wait" ELSE "none"]
    /\ inPc = [c \in Conns |-> IF c = 1 THEN "read" ELSE "idle"]
    /\ outPc = [c \in Conns |-> IF c = 1 THEN "run" ELSE "idle"]
    /\ wire = [c \in Conns |-> IF c = 1 THEN RouterWire(c) ELSE <<>>]
    /\ registry = [k \in {DefaultID(1)} |-> 1]
    /\ notFoundSet = FALSE
    /\ router = RoutedRouter
    /\ dPc = [d \in ConsumerTasks |-> "recv"]
    /\ createHookPc = [c \in Conns |-> IF c = 1 THEN "done" ELSE "none"]
    /\ sessId = [c \in Conns |-> IF c = 1 THEN AppID(c) ELSE DefaultID(c)]
    /\ nextId = 2
    /\ storage = [n \in {1} |-> n]

NextShutdown ==
    \/ AcceptErr
    \/ StopBegin
    \/ \E k \in DOMAIN registry : StopRangeStep(k)
    \/ StopRouter
    \/ StopListener
    \/ \E c \in Conns :
        \/ InboundRead(c)
        \/ InboundPush(c)
        \/ OutboundWrite(c)
        \/ OutboundExit(c)
        \/ HandleConnRemove(c)
        \/ HandleConnClose(c)
        \/ OnSessionCloseRun(c)
    \/ \E d \in ConsumerTasks :
        \/ DispatchRecv(d)
        \/ DispatchExit(d)
        \/ DispatchStep(d)
        \/ DispatchPost(d)

SpecShutdown == InitShutdown /\ [][NextShutdown]_vars

\* --------------------------------------------------------- accept scenario
\* One peer connects and sends nothing, and Accept returns MaxAcceptErrs errors
\* while the listener is open.
InitAccept == InitUnserved(MaxAcceptErrs, {1}, {})

NextAccept ==
    \/ Serve
    \/ AcceptTop
    \/ AcceptConn
    \/ AcceptErr
    \/ AcceptSleepDone
    \/ StopBegin
    \/ \E k \in DOMAIN registry : StopRangeStep(k)
    \/ StopRouter
    \/ StopListener
    \/ \E c \in Conns :
        \/ HandleConnAdd(c)
        \/ HandleConnStart(c)
        \/ HandleConnRemove(c)
        \/ HandleConnClose(c)
        \/ OnSessionCreateRun(c)
        \/ OnSessionCloseRun(c)
        \/ InboundReadFail(c)
        \/ OutboundExit(c)
    \/ \E d \in ConsumerTasks : DispatchExit(d)

SpecAccept == InitAccept /\ [][NextAccept]_vars

\* The goroutine that called Stop and the one that runs Serve are scheduled
\* again and again: a step of Stop or of the accept loop that stays possible is
\* taken.
FairnessAccept ==
    /\ WF_vars(AcceptTop)
    /\ WF_vars(AcceptErr)
    /\ WF_vars(AcceptSleepDone)
    /\ \A c \in Conns : WF_vars(StopRangeStep(DefaultID(c)))
    /\ WF_vars(StopRouter)
    /\ WF_vars(StopListener)

SpecAcceptFair == SpecAccept /\ FairnessAccept

C3_StopClosesEveryRegistered ==
    stopPc = "done" =>
        /\ routerStopped
        /\ \A k \in DOMAIN registry : closed[registry[k]]

\* C6 as stated (its safety half): a session whose handleConn has returned, so
\* that nothing is left to remove it, has no entry in the registry.
C6_ClosedSessionRemoved ==
    \A c \in Conns : hcPc[c] = "done" => ~Registered(c)

\* The steps a Context's chain has run, in order.
StepsOf(ctx) == [i \in 1..Len(ctx.trace) |-> ctx.trace[i].step]

\* The requests of session c in the order they entered the request queue.
PushedBy(c) ==
    LET mine == SelectSeq(pushLog, LAMBDA p : p[1] = c)
    IN  [i \in 1..Len(mine) |-> mine[i][2]]

IsPrefix(a, b) == Len(a) <= Len(b) /\ a = SubSeq(b, 1, Len(a))

\* C4: session 1 sends WireLen requests for the echoing route X, marked
\* 1..WireLen: they enter the request queue in that order, and the responses
\* posted to its response queue and written to its connection carry the markers
\* 1, 2, ... in that order, whatever the other sessions do.
C4_FifoPerSession ==
    /\ \A c \in 1..RouterConns : IsPrefix(PushedBy(c), RouterWire(c))
    /\ Len(written[1]) <= WireLen
    /\ \A i \in 1..Len(written[1]) : written[1][i] = Entry("ACK", i)
    /\ \A i \in 1..Len(respQueue[1]) :
        /\ respQueue[1][i].id = "ACK"
        /\ respQueue[1][i].data > Len(written[1])
        /\ i > 1 => respQueue[1][i].data > respQueue[1][i - 1].data

\* C4 witness: all WireLen responses of session 1 are on the wire, with requests
\* of another session handled in between.
C4_Witness ==
    /\ Len(written[1]) = WireLen
    /\ \E i \in 1..Len(handled) : handled[i].sess # 1 /\ i < Len(handled)

\* C5: the request queue never holds more than the configured ReqQueueSize
\* requests; while it holds that many, an inbound task that is pushing stays
\* where it is with its request; and every request read from a connection is
\* either still being pushed or has entered the queue (none is dropped).
C5_Backpressure ==
    /\ [](Len(reqQueue) <= ReqQueueSizeOpt)
    /\ [](\A c \in 1..RouterConns :
            Len(PushedBy(c)) + (IF inPc[c] = "push" THEN 1 ELSE 0)
                = Len(RouterWire(c)) - Len(wire[c]))
    /\ [][\A c \in Conns :
            (inPc[c] = "push" /\ Len(reqQueue) = ReqQueueSizeOpt) =>
                (inPc'[c] = "push" /\ inPending'[c] = inPending[c])]_vars

\* C5 witness: the queue is full and an inbound task is blocked pushing.
C5_Witness ==
    /\ Len(reqQueue) = ReqQueueSizeOpt
    /\ \E c \in Conns : inPc[c] = "push"

\* C7: at most one dispatch task is between taking a Context off the queue and
\* finishing with it; a Context still queued has run no step of its chain, and
\* one the dispatch task has finished with has run its chain to the end.
C7_OneChainAtATime ==
    /\ Cardinality({d \in DOMAIN dPc : dPc[d] \in {"chain", "post"}}) <= 1
    /\ \A i \in 1..Len(reqQueue) : reqQueue[i].trace = <<>>
    /\ \A i \in 1..Len(handled) :
        /\ handled[i].trace # <<>>
        /\ ~CallsNext(handled[i].trace[Len(handled[i].trace)].step)
    /\ Len(pushLog) = Len(handled) + Len(reqQueue)
            + Cardinality({d \in DOMAIN dPc : dPc[d] \in {"chain", "post"}})

\* C7 witness: a chain is half-way while another request waits in the queue.
C7_Witness ==
    \E d \in DOMAIN dPc :
        /\ dPc[d] = "chain"
        /\ dIdx[d] > 1
        /\ reqQueue # <<>>

\* The Contexts whose chain has run at least one step.
Dispatched ==
    {handled[i] : i \in 1..Len(handled)} \cup
    {dCtx[d] : d \in {e \in DOMAIN dPc : dPc[e] \in {"chain", "post"}}}

\* C8: with G1, G2 registered through Use and R1 through AddRoute for X, the
\* steps run for a request for X are, in order, G1, G2, R1 and the handler, each
\* seeing the marks of exactly the steps before it; behind RB, which does not
\* call next, the handler of Y never runs and no response is set.
C8_MiddlewareOrder ==
    \A ctx \in Dispatched :
        /\ ctx.req.id = "X" => IsPrefix(StepsOf(ctx), <<"G1", "G2", "R1", "echo">>)
        /\ ctx.req.id = "Y" =>
            IsPrefix(StepsOf(ctx), <<"G1", "G2", "RB">>) /\ ctx.resp.id = "none"
        /\ \A i \in 1..Len(ctx.trace) :
            ctx.trace[i].saw = SubSeq(StepsOf(ctx), 1, i - 1)
        /\ (\E i \in 1..Len(handled) : handled[i] = ctx) =>
            /\ ctx.req.id = "X" =>
                StepsOf(ctx) = <<"G1", "G2", "R1", "echo">> /\ ctx.resp.id = "ACK"
            /\ ctx.req.id = "Y" => StepsOf(ctx) = <<"G1", "G2", "RB">>

\* C8 witness: a request for X and a request for Y have both been handled.
C8_Witness ==
    /\ \E i \in 1..Len(handled) :
        handled[i].req.id = "X" /\ Len(handled[i].trace) = 4
    /\ \E i \in 1..Len(handled) : handled[i].req.id = "Y"

\* C9: a request for the unrouted U ends in the not-found handler when the
\* application set one and is dropped without a response otherwise; the
\* dispatch task goes on, and a request for X that another session queued and
\* that is handled after it still runs its whole chain and gets its response.
C9_NotFoundFallback ==
    /\ \A d \in DOMAIN dPc : dPc[d] \in {"recv", "chain", "post"}
    /\ \A i \in 1..Len(handled) :
        handled[i].req.id = "U" =>
            /\ IF notFoundSet
               THEN StepsOf(handled[i]) = <<"G1", "G2", "nf">>
               ELSE StepsOf(handled[i]) = <<"G1", "G2", "drop">>
                    /\ handled[i].resp.id = "none"
            /\ \A j \in (i + 1)..Len(handled) :
                (handled[j].sess # handled[i].sess /\ handled[j].req.id = "X") =>
                    /\ StepsOf(handled[j]) = <<"G1", "G2", "R1", "echo">>
                    /\ handled[j].resp = Entry("ACK", handled[j].req.data)

\* C9 witness: with a not-found handler set, a request for U was handled by it
\* and a request for X of another session was handled afterwards.
C9_Witness ==
    /\ notFoundSet
    /\ \E i \in 1..Len(handled) :
        /\ handled[i].req.id = "U"
        /\ handled[i].resp.id = "NF"
        /\ \E j \in (i + 1)..Len(handled) :
            handled[j].sess # handled[i].sess /\ handled[j].req.id = "X"

\* Everything the scenario can do is done: the hooks have run, the broadcast
\* request was handled, no sending goroutine is left, every response is written.
BroadcastQuiet ==
    /\ ~crashed
    /\ \A c \in Conns : createHookPc[c] = "done" /\ respQueue[c] = <<>>
    /\ wire[1] = <<>> /\ inPc[1] = "read" /\ reqQueue = <<>>
    /\ \A d \in DOMAIN dPc : dPc[d] = "recv"
    /\ sends = {}

\* The responses posted to session c so far.
Posted(c) == written[c] \o respQueue[c]

\* C10 as stated: no response is ever posted to a session other than the one it
\* names as its target; and once the scenario is over, A has exactly one
\* 'broadcast done' response and every other session exactly one broadcast
\* response naming an identifier of A and its own identifier.
C10_BroadcastDelivery ==
    /\ \A c \in Conns : \A i \in 1..Len(Posted(c)) :
        Len(Posted(c)[i].data) = 2 => Posted(c)[i].data[2] = sessId[c]
    /\ BroadcastQuiet =>
        /\ Len(written[1]) = 1
        /\ Len(written[1][1].data) = 1
        /\ \A c \in Conns \ {1} :
            /\ Len(written[c]) = 1
            /\ written[c][1].id = "BACK"
            /\ Len(written[c][1].data) = 2
            /\ written[c][1].data[1] \in {DefaultID(1), sessId[1]}

C12_InFlightPostTerminates ==
    \A x \in inFlightAtStop :
        \/ \E i \in 1..Len(handled) :
            /\ handled[i].sess = x[1] /\ handled[i].req = x[2]
            /\ handled[i].resp.id = "ACK"
        \/ \E d \in DOMAIN dPc :
            /\ dCtx[d].sess = x[1] /\ dCtx[d].req = x[2]
            /\ dPc[d] \in {"chain", "post"}
            /\ (dPc[d] = "post" /\ dCtx[d].resp.id # "none") =>
                \/ Len(respQueue[x[1]]) < RespQueueCap
                \/ outPc[x[1]] = "run"

\* C13: when Accept returns an error and the server is not stopped, a temporary
\* error sends the loop to sleep tempErrDelay and then back to the top and to
\* Accept, with no result returned and no handleConn started, and any other
\* error ends the loop with the accept error as Serve's result; when the stopped
\* flag is set at that moment the result is ErrServerStopped whatever the error.
C13_AcceptErrors ==
    /\ [][(acceptPc = "accept" /\ acceptPc' \notin {"accept", "top"}) =>
            /\ hcPc' = hcPc /\ registry' = registry /\ pendingConns' = pendingConns
            /\ IF stopped
               THEN acceptPc' = "done" /\ serveResult' = "ErrServerStopped"
               ELSE IF acceptErr' = "temporary"
               THEN acceptPc' = "sleep" /\ serveResult' = "none"
               ELSE /\ acceptErr' = "other"
                    /\ acceptPc' = "done" /\ serveResult' = "accept err"]_vars
    /\ [][(acceptPc = "sleep" /\ acceptPc' # "sleep") =>
            acceptPc' = "top" /\ serveResult' = "none" /\ hcPc' = hcPc]_vars
    /\ [][(acceptPc = "top" /\ acceptPc' # "top" /\ ~stopped) =>
            acceptPc' = "accept" /\ serveResult' = "none"]_vars
    /\ [](serveResult = "accept err" => acceptErr = "other" /\ acceptPc = "done")

\* C13 witness: after a temporary error and the delay the loop is in Accept
\* again, the server is not stopped and a peer is still to be accepted.
C13_Witness ==
    /\ acceptPc = "accept"
    /\ acceptErr = "temporary"
    /\ ~stopped
    /\ serveResult = "none"
    /\ pendingConns # {}

\* C14 as stated: a panic inside OnSessionCreate or OnSessionClose does not
\* crash the server: after it the process is still running, so the accept loop,
\* the dispatch task, the session's tasks and its handleConn can go on.
C14_HookFaultIsolated ==
    \A c \in Conns :
        (createHookPc[c] = "panicked" \/ closeHookPc[c] = "panicked") => ~crashed

\* C15: handleConn never waits for a hook. While OnSessionCreate has not
\* returned the session's two tasks are started all the same, handleConn can
\* take its next step whenever the close signal allows it, and its Remove takes
\* the session out of the registry; while OnSessionClose has not returned
\* handleConn can still call conn.Close() and return.
C15_HooksDoNotBlock ==
    \A c \in Conns :
        /\ createHookPc[c] = "spawned" =>
            /\ inPc[c] # "idle" /\ outPc[c] # "idle"
            /\ (hcPc[c] = "wait" /\ closed[c]) => ENABLED HandleConnRemove(c)
            /\ hcPc[c] \in {"removed", "done"} => ~Registered(c)
        /\ closeHookPc[c] = "spawned" =>
            /\ hcPc[c] \in {"removed", "done"}
            /\ hcPc[c] = "removed" => ENABLED HandleConnClose(c)

\* C15 witness: neither hook of a session has returned, and its handleConn has
\* removed it, closed the connection and returned.
C15_Witness ==
    \E c \in Conns :
        /\ createHookPc[c] = "spawned"
        /\ closeHookPc[c] = "spawned"
        /\ hcPc[c] = "done"
        /\ connClosed(c)
        /\ ~Registered(c)

\* C16 as stated: NewServer gives the router queue the default size when
\* ReqQueueSize <= 0 and the given size otherwise, the response queues the
\* default size when RespQueueSize <= 0 and the given size otherwise, and
\* 1 write attempt when WriteAttemptTimes <= 0 and the given count otherwise.
C16_DefaultsWhenNotPositive ==
    server.built =>
        /\ server.reqQueueSize =
            IF option.ReqQueueSize <= 0 THEN DefaultReqQueueSize
            ELSE option.ReqQueueSize
        /\ server.respQueueSize =
            IF option.RespQueueSize <= 0 THEN DefaultRespQueueSize
            ELSE option.RespQueueSize
        /\ server.writeAttemptTimes =
            IF option.WriteAttemptTimes <= 0 THEN 1 ELSE option.WriteAttemptTimes

\* C16 as amended: the queue sizes get the default (1024) only when negative, a
\* size of 0 is kept as 0; the write attempts are 1 when the option is <= 0.
C16_DefaultsWhenNegative ==
    server.built =>
        /\ server.reqQueueSize =
            IF option.ReqQueueSize < 0 THEN 1024 ELSE option.ReqQueueSize
        /\ server.respQueueSize =
            IF option.RespQueueSize < 0 THEN 1024 ELSE option.RespQueueSize
        /\ server.writeAttemptTimes =
            IF option.WriteAttemptTimes <= 0 THEN 1 ELSE option.WriteAttemptTimes

\* C16 witness: NewServer was given a request queue size of 0, a negative
\* response queue size and 0 write attempts, and kept the first.
C16_Witness ==
    /\ server.built
    /\ option.ReqQueueSize = 0 /\ server.reqQueueSize = 0
    /\ option.RespQueueSize < 0 /\ server.respQueueSize = 1024
    /\ option.WriteAttemptTimes = 0 /\ server.writeAttemptTimes = 1

\* C17 as stated: a second call of Stop, made after the first has returned,
\* completes without a fault: the process goes on, with the router stopped and
\* the listener closed as the first call left them.
C17_SecondStopCompletes ==
    stopPc = "second" => ~crashed /\ routerStopped /\ listenerClosed

\* C18: once Stop has been called while the accept loop runs (at the top of the
\* loop, blocked in Accept, or asleep after a temporary error), the loop ends;
\* when it ends after the stopped flag was set Serve returns ErrServerStopped;
\* and once it has ended no connection is accepted or handed to handleConn.
C18_StopEndsAcceptLoop ==
    /\ (stopped /\ acceptPc \in {"top", "accept", "sleep"}) ~>
            (acceptPc = "done" /\ serveResult = "ErrServerStopped")
    /\ [][(stopped /\ acceptPc # "done" /\ acceptPc' = "done") =>
            serveResult' = "ErrServerStopped"]_vars
    /\ [][acceptPc = "done" =>
            /\ acceptPc' = "done" /\ pendingConns' = pendingConns
            /\ \A c \in Conns : hcPc[c] = "none" => hcPc'[c] = "none"]_vars

\* C18 witness: Stop has returned and the loop, whose last Accept call returned
\* a temporary error, has ended with Serve returning ErrServerStopped.
C18_Witness ==
    /\ stopPc = "done"
    /\ acceptPc = "done"
    /\ acceptErr = "temporary"
    /\ serveResult = "ErrServerStopped"

\* C19: a session whose inbound or outbound task has been started and whose
\* close signal has not fired is in the session registry.
C19_RunningSessionRegistered ==
    \A c \in Conns :
        ((inPc[c] # "idle" \/ outPc[c] # "idle") /\ ~closed[c]) => Registered(c)

\* C19 witness: a session's tasks run, its close signal has not fired, its
\* OnSessionCreate hook has changed its identifier, and it is registered (under
\* the identifier it had when it was added).
C19_Witness ==
    \E c \in Conns :
        /\ inPc[c] = "read" /\ outPc[c] = "run"
        /\ ~closed[c]
        /\ sessId[c] # DefaultID(c)
        /\ DefaultID(c) \in DOMAIN registry
        /\ registry[DefaultID(c)] = c

====
